---------------------------- MODULE Spec2Model ----------------------------
(***************************************************************************)
(* Key exchange schemes of sage.crypto.public_key.key_exchange:            *)
(* KeyExchangeBase, CommutativeKeyExchangeBase, SIDH and                   *)
(* FiniteFieldDiffieHellman.                                               *)
(*                                                                         *)
(* The algebraic library (finite fields, elliptic curves, isogenies) is    *)
(* not part of the three source files.  It is modelled from the            *)
(* capability interface of the specification (section 6) in the standard   *)
(* way: a supersingular curve E over GF(p^2) with p + 1 = N has            *)
(* E(GF(p^2)) isomorphic to (Z/N)^2, a curve isogenous to E is E/G for a   *)
(* subgroup G of (Z/N)^2, and a point of E/G is a coset of G.  A subgroup  *)
(* is kept as the Hermite normal form <<a, b, d>> of the lattice spanned   *)
(* by (a, b), (0, d), which contains N*Z^2; a coset is kept as its reduced *)
(* representative.                                                         *)
(***************************************************************************)
EXTENDS Integers, Sequences, FiniteSets, TLC

----------------------------------------------------------------------------
(* Bounds of the model *)

\* largest field characteristic handed to the SIDH constructor
MaxChar == 13
\* largest argument handed to parameter_set_from_prime
MaxPrimeArg == 12
\* number of states of the process-wide random source that are told apart
RngPeriod == 2
\* number of leading x-coordinates c at which a basis search may meet a point
OracleSpan == 2

\* the largest generator handed to FiniteFieldDiffieHellman
MaxGenerator == 6
\* the largest p handed to FiniteFieldDiffieHellman when its methods are called
MaxDHPrime == 11

----------------------------------------------------------------------------
(* Integer utilities of the library: primality, valuation, powers, gcd *)

RECURSIVE Pow(_, _)
Pow(b, e) == IF e <= 0 THEN 1 ELSE b * Pow(b, e - 1)

RECURSIVE Gcd(_, _)
Gcd(m, n) == IF n = 0 THEN m ELSE Gcd(n, m % n)

is_prime(n) == n >= 2 /\ \A q \in 2..(n - 1) : q * q > n \/ n % q # 0

RECURSIVE valuation(_, _)
valuation(n, l) == IF n <= 0 \/ n % l # 0 THEN 0 ELSE 1 + valuation(n \div l, l)

\* prime factors of n with multiplicity, ascending
RECURSIVE FactorsFrom(_, _)
FactorsFrom(n, q) ==
    IF n <= 1 THEN << >>
    ELSE IF n % q = 0 THEN <<q>> \o FactorsFrom(n \div q, q)
    ELSE FactorsFrom(n, q + 1)

Factors(n) == FactorsFrom(n, 2)

----------------------------------------------------------------------------
(* Subgroups of (Z/N)^2 as lattices in Hermite normal form *)

TrivialLat(N) == <<N, 0, N>>

LatDet(L) == L[1] * L[3]

\* reduced representative of the coset v + L
Reduce(L, v) ==
    LET q == v[1] \div L[1]
    IN  <<v[1] - q * L[1], (v[2] - q * L[2]) % L[3]>>

\* Euclid on two rows, second components kept modulo N
RECURSIVE RowEuclid(_, _, _)
RowEuclid(r, s, N) ==
    IF s[1] = 0 THEN <<r, s>>
    ELSE LET q == r[1] \div s[1]
         IN  RowEuclid(s, <<r[1] - q * s[1], (r[2] - q * s[2]) % N>>, N)

\* the lattice L + Z*v
LatAdd(L, v, N) ==
    LET w  == <<v[1] % N, v[2] % N>>
        e  == RowEuclid(<<L[1], L[2]>>, <<w[1] % L[1], (w[2] - (w[1] \div L[1]) * L[2]) % N>>, N)
        d  == Gcd(L[3], e[2][2])
    IN  <<e[1][1], e[1][2] % d, d>>

InLat(L, v) == Reduce(L, v) = <<0, 0>>

----------------------------------------------------------------------------
(* Characteristics.  A characteristic is a positive integer, except that  *)
(* the characteristics 2^e2 * 3^e3 - 1 of the four standard parameter      *)
(* sets, which do not fit a machine integer, are kept as the negative      *)
(* code -(1000 * e2 + e3) of their exponents.                              *)

BigP(e2, e3) == 0 - (1000 * e2 + e3)

IsBig(p) == p < 0

IsSmall(p) == ~IsBig(p)

BigE2(p) == (0 - p) \div 1000

BigE3(p) == (0 - p) % 1000

\* Integer.is_prime: the four standard characteristics are prime
p_is_prime(p) == IF IsBig(p) THEN TRUE ELSE is_prime(p)

\* (p + 1).valuation(l)
succ_valuation(p, l) ==
    IF IsBig(p) THEN (IF l = 2 THEN BigE2(p) ELSE IF l = 3 THEN BigE3(p) ELSE 0)
    ELSE valuation(p + 1, l)

\* 2**e_A * 3**e_B - 1 != p
not_sidh_prime(p, e_A, e_B) ==
    IF IsBig(p) THEN ~(e_A = BigE2(p) /\ e_B = BigE3(p))
    ELSE Pow(2, e_A) * Pow(3, e_B) - 1 # p

----------------------------------------------------------------------------
(* Curves, points and isogenies of the library *)

\* the curve with the given name over GF(char^degree); model is the walk
\* (the degrees of the isogenies) by which its equation was reached
Curve(char, degree, id) ==
    [char |-> char, degree |-> degree, id |-> id,
     lat |-> IF IsBig(char) THEN <<0, 0, 0>> ELSE TrivialLat(char + 1),
     model |-> << >>]

CurveN(C) == C.char + 1

Point(C, v) == [curve |-> C, xy |-> Reduce(C.lat, <<v[1] % CurveN(C), v[2] % CurveN(C)>>)]

\* the n-th named point of a curve of cryptographic size, whose coordinates
\* do not fit; kept apart from the coordinates of the small curves
NamedPoint(C, n) == [curve |-> C, xy |-> <<0 - 1, n>>]

\* P in E
on_curve(P, E) == P.curve = E

\* P + Q
point_add(P, Q) == Point(P.curve, <<P.xy[1] + Q.xy[1], P.xy[2] + Q.xy[2]>>)

\* k * Q
point_mul(k, Q) == Point(Q.curve, <<k * Q.xy[1], k * Q.xy[2]>>)

\* P.order()
point_order(P) ==
    LatDet(P.curve.lat) \div LatDet(LatAdd(P.curve.lat, P.xy, CurveN(P.curve)))

\* the quotient of C by the subgroup generated by K, reached by degree deg
Quotient(C, K, deg) ==
    [C EXCEPT !.lat = LatAdd(C.lat, K.xy, CurveN(C)), !.model = Append(C.model, deg)]

\* start_curve.isogeny(K, algorithm='factored')
isogeny(start_curve, K) ==
    [domain |-> start_curve, kernel |-> K,
     codomain |-> Quotient(start_curve, K, point_order(K))]

\* phi(P)
iso_eval(phi, P) == Point(phi.codomain, P.xy)

\* the codomains of iso.factors(): one prime-degree step per prime factor
iso_factor_codomains(phi) ==
    LET n  == point_order(phi.kernel)
        fs == Factors(n)
        RECURSIVE Prod(_)
        Prod(i) == IF i = 0 THEN 1 ELSE fs[i] * Prod(i - 1)
    IN  [i \in 1..Len(fs) |->
            Quotient(phi.domain, point_mul(n \div Prod(i), phi.kernel), Prod(i))]

\* E.j_invariant(): the isomorphism class, whatever the equation
j_invariant(C) == [char |-> C.char, id |-> C.id, lat |-> C.lat]

----------------------------------------------------------------------------
(* State *)

VARIABLES
    inst,      \* the scheme instance, NoInstance before and after a failed construction
    err,       \* the error raised by the construction call
    log,       \* the library calls and searches made by the construction call, in order
    call,      \* the construction call that was made
    params0,   \* parameters() as returned right after construction
    rng,       \* state of the process-wide random source
    last,      \* the last completed call of a method of the instance, with its result
    kept,      \* an earlier call with its result, cached by the caller, and the
               \* state of the random source at that time
    run,       \* the locals and the position of the running do_key_exchange
    left,      \* the object bound to the left operand of a comparison
    right,     \* the object bound to the right operand of a comparison
    cmp,       \* the last comparison of the two operands, with their hashes
    search,    \* the position and the locals of the running basis search
    root       \* a call of canonical_square_root: the field, s, the root of
               \* the library and the result

vars == <<inst, err, log, call, params0, rng, last, kept, run, left, right, cmp,
          search, root>>

----------------------------------------------------------------------------
(* Errors *)

NoError == [type |-> "none", msg |-> "", about |-> [none |-> TRUE]]

ValueError(msg, about) == [type |-> "ValueError", msg |-> msg, about |-> about]

TypeError(msg, about) == [type |-> "TypeError", msg |-> msg, about |-> about]

RuntimeError(msg) == [type |-> "RuntimeError", msg |-> msg, about |-> [none |-> TRUE]]

NoInstance == [cls |-> "none"]

Failed(e, made) == [err |-> e, obj |-> NoInstance, log |-> made]

Built(obj, made) == [err |-> NoError, obj |-> obj, log |-> made]

Step(s, n) == [step |-> s, n |-> n]

----------------------------------------------------------------------------
(* class SIDH: construction *)

\* a plausible slip: the degree of the field is checked before the characteristic
SIDH_init_degree_first(cls, E, PA, QA, PB, QB, made) ==
    LET p   == E.char
        e_A == succ_valuation(p, 2)
        e_B == succ_valuation(p, 3)
        validate_point(P) == on_curve(P, E)
        not_on(P) == Failed(ValueError("is not on", [point |-> P, curve |-> E]), made)
    IN  IF E.degree # 2
          THEN Failed(ValueError("curve must be defined over a degree two field extension",
                                 [none |-> TRUE]), made)
        ELSE IF not_sidh_prime(p, e_A, e_B)
          THEN Failed(ValueError("curve must be over characteristic 2^e_A * 3^e_B - 1",
                                 [none |-> TRUE]), made)
        ELSE IF ~validate_point(PA) THEN not_on(PA)
        ELSE IF ~validate_point(QA) THEN not_on(QA)
        ELSE IF ~validate_point(PB) THEN not_on(PB)
        ELSE IF ~validate_point(QB) THEN not_on(QB)
        ELSE Built([cls |-> cls, p |-> p, e_A |-> e_A, e_B |-> e_B, E |-> E,
                    PA |-> PA, QA |-> QA, PB |-> PB, QB |-> QB, name |-> ""], made)

\* SIDH.__init__; made is what the caller did before
SIDH_init(cls, E, PA, QA, PB, QB, made) ==
    LET p   == E.char
        e_A == succ_valuation(p, 2)
        e_B == succ_valuation(p, 3)
        validate_point(P) == on_curve(P, E)
        not_on(P) == Failed(ValueError("is not on", [point |-> P, curve |-> E]), made)
    IN  IF not_sidh_prime(p, e_A, e_B)
          THEN Failed(ValueError("curve must be over characteristic 2^e_A * 3^e_B - 1",
                                 [none |-> TRUE]), made)
        ELSE IF E.degree # 2
          THEN Failed(ValueError("curve must be defined over a degree two field extension",
                                 [none |-> TRUE]), made)
        ELSE IF ~validate_point(PA) THEN not_on(PA)
        ELSE IF ~validate_point(QA) THEN not_on(QA)
        ELSE IF ~validate_point(PB) THEN not_on(PB)
        ELSE IF ~validate_point(QB) THEN not_on(QB)
        ELSE Built([cls |-> cls, p |-> p, e_A |-> e_A, e_B |-> e_B, E |-> E,
                    PA |-> PA, QA |-> QA, PB |-> PB, QB |-> QB, name |-> ""], made)

\* SIDH.parameters
SIDH_parameters(self) == <<self.p, self.E, self.PA, self.QA, self.PB, self.QB>>

\* SageObject.rename
rename(r, nm) == IF r.err.type = "none" THEN [r EXCEPT !.obj.name = nm] ELSE r

----------------------------------------------------------------------------
(* SIDH.parameter_set_from_prime.  Which x-coordinates c give a point, and *)
(* which point, is decided by the field arithmetic of the library; the     *)
(* caller of the model supplies it as three oracles, one per loop: the     *)
(* kinds of the points met at c = 0, 1, ... (none, or a point that         *)
(* satisfies the predicate of one search, or a point of too small order).  *)

TrialKinds == {"none", "R1", "R2", "R3"}

PBKinds == {"none", "S1", "S3"}

QBKinds == {"none", "T1", "T3"}

Oracles(Kinds) == [1..OracleSpan -> Kinds]

\* the part of N = p + 1 prime to 6
Cofactor(p) == (p + 1) \div (Pow(2, valuation(p + 1, 2)) * Pow(3, valuation(p + 1, 3)))

KindCode(kind) ==
    CASE kind = "R1" -> 11 [] kind = "R2" -> 12 [] kind = "R3" -> 13
      [] kind = "S1" -> 21 [] kind = "S3" -> 23
      [] kind = "T1" -> 31 [] kind = "T3" -> 33 [] OTHER -> 0

\* E(x0, y0) for the point of the given kind
KindPoint(E, kind) ==
    IF IsBig(E.char) THEN NamedPoint(E, KindCode(kind))
    ELSE LET m == Cofactor(E.char)
         IN  Point(E, CASE kind = "R1" -> <<m, 0>>
                        [] kind = "R2" -> <<0, m>>
                        [] kind = "R3" -> <<2 * m, 0>>
                        [] kind = "S1" -> <<2 * m, 0>>
                        [] kind = "S3" -> <<6 * m, 0>>
                        [] kind = "T1" -> <<0, 2 * m>>
                        [] kind = "T3" -> <<0, 6 * m>>
                        [] OTHER -> <<0, 0>>)

\* the three points of order 2: E(-3 + 2r, 0), E(-3 - 2r, 0) with r the
\* canonical square root of 2, and E(0, 0)
PA_mults(E) ==
    LET h == CurveN(E) \div 2 IN {Point(E, <<h, 0>>), Point(E, <<h, h>>)}

E_00(E) == Point(E, <<0, CurveN(E) \div 2>>)

\* PA = 3**e_B * R and 2**(e_A - 1) * PA in PA_mults
PA_found(E, e_A, e_B, kind) ==
    IF kind = "none" THEN FALSE
    ELSE IF IsBig(E.char) THEN kind = "R1"
    ELSE point_mul(Pow(2, e_A - 1), point_mul(Pow(3, e_B), KindPoint(E, kind))) \in PA_mults(E)

\* QA = 3**e_B * R and 2**(e_A - 1) * QA == E_00
QA_found(E, e_A, e_B, kind) ==
    IF kind = "none" THEN FALSE
    ELSE IF IsBig(E.char) THEN kind = "R2"
    ELSE point_mul(Pow(2, e_A - 1), point_mul(Pow(3, e_B), KindPoint(E, kind))) = E_00(E)

\* PB = 2**(e_A - 1) * E(c, ...) and PB.order() == 3**e_B; the same for QB
B_found(E, e_A, e_B, kind) ==
    IF kind = "none" THEN FALSE
    ELSE IF IsBig(E.char) THEN kind \in {"S1", "T1"}
    ELSE point_order(point_mul(Pow(2, e_A - 1), KindPoint(E, kind))) = Pow(3, e_B)

\* for c in range(p): the first c (counted from 1) whose point is accepted,
\* 0 when the loop runs to its end; accepted[c] tells whether the predicate
\* of the search holds of the point met at c
FirstFound(p, accepted) ==
    LET lim  == IF IsBig(p) \/ p > OracleSpan THEN OracleSpan ELSE p
        hits == {c \in 1..lim : accepted[c]}
    IN  IF hits = {} THEN 0 ELSE CHOOSE c \in hits : \A d \in hits : c <= d

\* x^2 + 1 is irreducible over GF(p)
modulus_irreducible(p) ==
    IF IsBig(p) THEN TRUE ELSE \A t \in 0..(p - 1) : (t * t + 1) % p # 0

failed_to_find(nm) ==
    ValueError("failed to find point, try using SIDH constructor directly and specify all parameters",
               [point |-> nm])

\* the point found by a search: mult * E(x0, y0)
BasisPoint(E, mult, kind, n) ==
    IF IsBig(E.char) THEN NamedPoint(E, n) ELSE point_mul(mult, KindPoint(E, kind))

\* SIDH.parameter_set_from_prime after the primality check: the field, the
\* curve, the four searches and the constructor
derive_parameter_set(cls, p, log0, tp, pbo, qbo) ==
    LET e_A  == succ_valuation(p, 2)
        e_B  == succ_valuation(p, 3)
        log1 == log0 \o <<Step("FiniteField", 0), Step("extension", 0)>>
    IN  IF ~modulus_irreducible(p)
          THEN Failed(ValueError("finite field modulus must be irreducible but it is not",
                                 [none |-> TRUE]), log1)
        ELSE
        LET E    == Curve(p, 2, "E6")
            log2 == log1 \o <<Step("EllipticCurve", 0)>>
            cPA  == FirstFound(p, [c \in 1..OracleSpan |-> PA_found(E, e_A, e_B, tp[c])])
            cQA  == FirstFound(p, [c \in 1..OracleSpan |-> QA_found(E, e_A, e_B, tp[c])])
            cPB  == FirstFound(p, [c \in 1..OracleSpan |-> B_found(E, e_A, e_B, pbo[c])])
            cQB  == FirstFound(p, [c \in 1..OracleSpan |-> B_found(E, e_A, e_B, qbo[c])])
            tried(c) == IF c = 0 THEN p ELSE c
            logPA == log2 \o <<Step("search PA", tried(cPA))>>
            logQA == logPA \o <<Step("search QA", tried(cQA))>>
            logPB == logQA \o <<Step("search PB", tried(cPB))>>
            logQB == logPB \o <<Step("search QB", tried(cQB))>>
        IN  IF cPA = 0 THEN Failed(failed_to_find("PA"), logPA)
            ELSE IF cQA = 0 THEN Failed(failed_to_find("QA"), logQA)
            ELSE IF cPB = 0 THEN Failed(failed_to_find("PB"), logPB)
            ELSE IF cQB = 0 THEN Failed(failed_to_find("QB"), logQB)
            ELSE SIDH_init(cls, E,
                           BasisPoint(E, Pow(3, e_B), tp[cPA], 1),
                           BasisPoint(E, Pow(3, e_B), tp[cQA], 2),
                           BasisPoint(E, Pow(2, e_A - 1), pbo[cPB], 3),
                           BasisPoint(E, Pow(2, e_A - 1), qbo[cQB], 4),
                           logQB \o <<Step("SIDH", 0)>>)

\* a plausible slip: the primality check is left out
parameter_set_from_prime_unchecked(cls, prime, tp, pbo, qbo) ==
    derive_parameter_set(cls, prime, << >>, tp, pbo, qbo)

\* SIDH.parameter_set_from_prime(prime), the library answering by the oracles
parameter_set_from_prime(cls, prime, tp, pbo, qbo) ==
    LET p    == prime
        log0 == <<Step("is_prime", 0)>>
    IN  IF ~p_is_prime(p) THEN Failed(ValueError("p must be prime", [none |-> TRUE]), log0)
        ELSE derive_parameter_set(cls, p, log0, tp, pbo, qbo)

\* KeyExchangeBase.named_parameter_set, called with the positional arguments args
KeyExchangeBase_named_parameter_set(cls, args) ==
    IF Len(args) # 1
      THEN Failed(TypeError("named_parameter_set() missing 1 required positional argument: 'name'",
                            [cls |-> cls]), << >>)
      ELSE Failed(ValueError("Unknown parameter set name", [name |-> args[1], cls |-> cls]), << >>)

\* the exponents (e_A, e_B) of the standard parameter sets
StandardExponents ==
    [p434 |-> <<216, 137>>, p503 |-> <<250, 159>>, p610 |-> <<305, 192>>, p751 |-> <<372, 239>>]

\* the toy parameter set over GF(431^2): E and the bases (PA, QA) of the
\* 2^4-torsion and (PB, QB) of the 3^3-torsion, in coordinates of E[432]
ToyCurve == Curve(Pow(2, 4) * Pow(3, 3) - 1, 2, "E_toy")

\* SIDH.named_parameter_set(name)
SIDH_named_parameter_set(cls, name, tp, pbo, qbo) ==
    IF name = "toy"
      THEN LET E == ToyCurve
           IN  rename(SIDH_init(cls, E, Point(E, <<27, 0>>), Point(E, <<0, 27>>),
                                Point(E, <<16, 0>>), Point(E, <<0, 16>>), << >>),
                      "sidh-toy")
    ELSE IF name \in DOMAIN StandardExponents
      THEN LET e == StandardExponents[name]
           IN  rename(parameter_set_from_prime(cls, BigP(e[1], e[2]), tp, pbo, qbo),
                      "sidh-" \o name)
    ELSE KeyExchangeBase_named_parameter_set(cls, << >>)

----------------------------------------------------------------------------
(* GF(p^2) = GF(p)[i]/(i^2 + 1) and canonical_square_root.  An element    *)
(* alpha + beta*i is kept as <<alpha, beta>>, lifted to 0..p-1.            *)

Fp2(p) == (0..(p - 1)) \X (0..(p - 1))

fp2_mul(p, u, v) ==
    <<(u[1] * v[1] + (p - 1) * u[2] * v[2]) % p, (u[1] * v[2] + u[2] * v[1]) % p>>

fp2_neg(p, u) == <<(p - u[1]) % p, (p - u[2]) % p>>

\* Fp2(s).sqrt(): the roots of s, of which the library returns one
fp2_sqrt(p, s) == {r \in Fp2(p) : fp2_mul(p, r, r) = s}

AssertionError == [type |-> "AssertionError", msg |-> "", about |-> [none |-> TRUE]]

\* a plausible slip: the root of the library as it is
canonical_square_root_as_is(p, s, r) ==
    [err |-> IF fp2_mul(p, r, r) = s THEN NoError ELSE AssertionError, value |-> r]

\* canonical_square_root(s), r being the root returned by the library
canonical_square_root(p, s, r) ==
    LET alpha == r[1]
        beta  == r[2]
    IN  IF (alpha # 0 /\ alpha % 2 = 0) \/ (alpha = 0 /\ beta % 2 = 0)
          THEN [err |-> IF fp2_mul(p, r, r) = s THEN NoError ELSE AssertionError,
                value |-> r]
          ELSE [err |-> IF fp2_mul(p, fp2_neg(p, r), fp2_neg(p, r)) = s
                          THEN NoError ELSE AssertionError,
                value |-> fp2_neg(p, r)]

----------------------------------------------------------------------------
(* class SIDH: keys and shared secrets *)

\* random.randint(lo, hi): the values it may return
randint(lo, hi) == lo..hi

\* a plausible slip: the upper end is left out, as random.randrange does
alice_secret_key_exclusive(self) == 0..(self.e_A - 1)

\* SIDH.alice_secret_key: the values it may return
alice_secret_key(self) == randint(0, self.e_A)

\* SIDH.bob_secret_key: the values it may return
bob_secret_key(self) == randint(0, self.e_B)

\* a plausible slip: the kernel generated by Q + secret_key * P
secret_isogeny_swapped(self, start_curve, secret_key, P, Q) ==
    isogeny(start_curve, point_add(Q, point_mul(secret_key, P)))

\* SIDH.secret_isogeny_path: the isogeny with kernel generated by P + secret_key * Q
secret_isogeny(self, start_curve, secret_key, P, Q) ==
    isogeny(start_curve, point_add(P, point_mul(secret_key, Q)))

\* SIDH.secret_isogeny_path: the j-invariants of the curves on the path
j_invariant_path(start_curve, iso) ==
    LET fc == iso_factor_codomains(iso)
    IN  <<j_invariant(start_curve)>> \o [i \in 1..Len(fc) |-> j_invariant(fc[i])]

\* SIDH.secret_isogeny_path
secret_isogeny_path(self, start_curve, secret_key, P, Q) ==
    LET iso == secret_isogeny(self, start_curve, secret_key, P, Q)
    IN  [iso |-> iso, path |-> j_invariant_path(start_curve, iso)]

\* a plausible slip: Alice sends the images of her own basis
alice_public_key_own_basis(self, alice_sk) ==
    LET phi_A == secret_isogeny(self, self.E, alice_sk, self.PA, self.QA)
    IN  <<phi_A.codomain, iso_eval(phi_A, self.PA), iso_eval(phi_A, self.QA)>>

\* a plausible slip: the key is drawn again instead of taken from the argument
alice_public_key_redrawn(self, alice_sk) ==
    LET k     == (alice_sk + rng) % (self.e_A + 1)
        phi_A == secret_isogeny(self, self.E, k, self.PA, self.QA)
    IN  <<phi_A.codomain, iso_eval(phi_A, self.PB), iso_eval(phi_A, self.QB)>>

\* SIDH.alice_public_key (phi_A, _ = self.secret_isogeny_path(...): the path is dropped)
alice_public_key(self, alice_sk) ==
    LET phi_A == secret_isogeny(self, self.E, alice_sk, self.PA, self.QA)
    IN  <<phi_A.codomain, iso_eval(phi_A, self.PB), iso_eval(phi_A, self.QB)>>

\* SIDH.bob_public_key
bob_public_key(self, bob_sk) ==
    LET phi_B == secret_isogeny(self, self.E, bob_sk, self.PB, self.QB)
    IN  <<phi_B.codomain, iso_eval(phi_B, self.PA), iso_eval(phi_B, self.QA)>>

\* SIDH.alice_compute_shared_secret
alice_compute_shared_secret(self, alice_sk, bob_pk) ==
    LET E_B    == bob_pk[1]
        P_A1   == bob_pk[2]
        Q_A1   == bob_pk[3]
        phi_A1 == secret_isogeny(self, E_B, alice_sk, P_A1, Q_A1)
        E_AB   == phi_A1.codomain
    IN  j_invariant(E_AB)

\* SIDH.bob_compute_shared_secret
bob_compute_shared_secret(self, bob_sk, alice_pk) ==
    LET E_A    == alice_pk[1]
        P_B1   == alice_pk[2]
        Q_B1   == alice_pk[3]
        phi_B1 == secret_isogeny(self, E_A, bob_sk, P_B1, Q_B1)
        E_BA   == phi_B1.codomain
    IN  j_invariant(E_BA)

----------------------------------------------------------------------------
(* KeyExchangeBase: derived operations *)

\* KeyExchangeBase.alice_key_pair: the pairs it may return
alice_key_pair(self) == {<<alice_sk, alice_public_key(self, alice_sk)>> : alice_sk \in alice_secret_key(self)}

\* KeyExchangeBase.bob_key_pair: the pairs it may return
bob_key_pair(self) == {<<bob_sk, bob_public_key(self, bob_sk)>> : bob_sk \in bob_secret_key(self)}

\* a plausible slip: the comparison is inverted
do_key_exchange_exit_inverted(alice_sk, alice_pk, bob_sk, bob_pk, alice_shared_secret, bob_shared_secret) ==
    IF alice_shared_secret = bob_shared_secret
      THEN [pc |-> "raised",
            err |-> RuntimeError("Alice and Bob did not arrive at the same shared secret"),
            out |-> << >>]
      ELSE [pc |-> "returned", err |-> NoError,
            out |-> <<alice_sk, alice_pk, bob_sk, bob_pk, alice_shared_secret>>]

\* the comparison and the two exits of KeyExchangeBase.do_key_exchange
do_key_exchange_exit(alice_sk, alice_pk, bob_sk, bob_pk, alice_shared_secret, bob_shared_secret) ==
    IF alice_shared_secret # bob_shared_secret
      THEN [pc |-> "raised",
            err |-> RuntimeError("Alice and Bob did not arrive at the same shared secret"),
            out |-> << >>]
      ELSE [pc |-> "returned", err |-> NoError,
            out |-> <<alice_sk, alice_pk, bob_sk, bob_pk, alice_shared_secret>>]

----------------------------------------------------------------------------
(* class FiniteFieldDiffieHellman: construction and parameters *)

\* GF(p, impl='modn')
GF(p) == [char |-> p, degree |-> 1]

\* FiniteFieldDiffieHellman.__init__; GF refuses an order that is not prime
FiniteFieldDiffieHellman_init(cls, p, generator) ==
    IF p < 5
      THEN Failed(ValueError("p must be at least 5", [none |-> TRUE]), << >>)
    ELSE IF ~is_prime(p)
      THEN Failed(ValueError("the order of a finite field must be a prime power",
                             [none |-> TRUE]), << >>)
    ELSE Built([cls |-> cls, p |-> p, field |-> GF(p), generator |-> generator % p], << >>)

\* FiniteFieldDiffieHellman.parameters
FiniteFieldDiffieHellman_parameters(self) == <<self.field, self.generator>>

\* x ** e in the field K, e an integer or the lift of a field element
RECURSIVE field_pow(_, _, _)
field_pow(K, x, e) == IF e <= 0 THEN 1 % K.char ELSE (x * field_pow(K, x, e - 1)) % K.char

\* self._field(n)
field_element(K, n) == n % K.char

\* a plausible slip: every nonzero exponent
FiniteFieldDiffieHellman_secret_key_nonzero(self) ==
    {field_element(self.field, k) : k \in randint(1, self.p - 1)}

\* FiniteFieldDiffieHellman.secret_key: the values it may return
FiniteFieldDiffieHellman_secret_key(self) ==
    {field_element(self.field, k) : k \in randint(2, self.p - 2)}

\* FiniteFieldDiffieHellman.public_key
FiniteFieldDiffieHellman_public_key(self, secret_key) ==
    field_pow(self.field, self.generator, secret_key)

\* a plausible slip: the power of the generator, not of the public key
FiniteFieldDiffieHellman_compute_shared_secret_of_generator(self, secret_key, public_key) ==
    field_element(self.field, field_pow(self.field, self.generator, secret_key))

\* FiniteFieldDiffieHellman.compute_shared_secret
FiniteFieldDiffieHellman_compute_shared_secret(self, secret_key, public_key) ==
    field_element(self.field, field_pow(self.field, public_key, secret_key))

----------------------------------------------------------------------------
(* CommutativeKeyExchangeBase: the methods of the two parties are aliases *)

CommutativeKeyExchangeBase_alice_secret_key(self) == FiniteFieldDiffieHellman_secret_key(self)

CommutativeKeyExchangeBase_alice_public_key(self, alice_sk) ==
    FiniteFieldDiffieHellman_public_key(self, alice_sk)

CommutativeKeyExchangeBase_bob_secret_key(self) == FiniteFieldDiffieHellman_secret_key(self)

CommutativeKeyExchangeBase_bob_public_key(self, bob_sk) ==
    FiniteFieldDiffieHellman_public_key(self, bob_sk)

CommutativeKeyExchangeBase_alice_compute_shared_secret(self, alice_sk, bob_pk) ==
    FiniteFieldDiffieHellman_compute_shared_secret(self, alice_sk, bob_pk)

CommutativeKeyExchangeBase_bob_compute_shared_secret(self, bob_sk, alice_pk) ==
    FiniteFieldDiffieHellman_compute_shared_secret(self, bob_sk, alice_pk)

\* KeyExchangeBase.do_key_exchange on an instance of a commutative scheme:
\* the exits it may take
CommutativeKeyExchangeBase_do_key_exchange(self) ==
    {LET alice_pk == CommutativeKeyExchangeBase_alice_public_key(self, alice_sk)
         bob_pk   == CommutativeKeyExchangeBase_bob_public_key(self, bob_sk)
     IN  do_key_exchange_exit(alice_sk, alice_pk, bob_sk, bob_pk,
             CommutativeKeyExchangeBase_alice_compute_shared_secret(self, alice_sk, bob_pk),
             CommutativeKeyExchangeBase_bob_compute_shared_secret(self, bob_sk, alice_pk)) :
       alice_sk \in CommutativeKeyExchangeBase_alice_secret_key(self),
       bob_sk \in CommutativeKeyExchangeBase_bob_secret_key(self)}

----------------------------------------------------------------------------
(* KeyExchangeBase: equality and hash.  An object is an instance together *)
(* with its identity; UserSIDH is a class derived from SIDH that overrides *)
(* nothing (class UserSIDH(SIDH): pass).                                   *)

\* the method resolution order of the classes
mro(cls) ==
    CASE cls = "SIDH" -> <<"SIDH", "KeyExchangeBase">>
      [] cls = "UserSIDH" -> <<"UserSIDH", "SIDH", "KeyExchangeBase">>
      [] cls = "FiniteFieldDiffieHellman" ->
           <<"FiniteFieldDiffieHellman", "CommutativeKeyExchangeBase", "KeyExchangeBase">>
      [] OTHER -> << >>

issubclass(c, d) == \E i \in 1..Len(mro(c)) : mro(c)[i] = d

type(x) == x.self.cls

isinstance(x, cls) == issubclass(type(x), cls)

\* x.parameters(), by the class that defines it
parameters(x) ==
    IF isinstance(x, "SIDH") THEN SIDH_parameters(x.self)
    ELSE FiniteFieldDiffieHellman_parameters(x.self)

\* s == t for two tuples
tuple_eq(s, t) == Len(s) = Len(t) /\ \A i \in 1..Len(s) : s[i] = t[i]

\* hash of a tuple from the hashes of its elements
RECURSIVE hash_tuple(_)
hash_tuple(hs) == IF hs = << >> THEN 0 ELSE Head(hs) + 2 * hash_tuple(Tail(hs))

hash_str(s) == CASE s = "E" -> 1 [] s = "E1" -> 2 [] s = "E_toy" -> 3 [] OTHER -> 0

hash_field(K) == hash_tuple(<<K.char, K.degree>>)

hash_curve(C) ==
    hash_tuple(<<C.char, C.degree, hash_str(C.id), C.lat[1], C.lat[2], C.lat[3],
                 hash_tuple(C.model)>>)

hash_point(P) == hash_tuple(<<hash_curve(P.curve), P.xy[1], P.xy[2]>>)

\* hash(x.parameters())
hash_parameters(x) ==
    IF isinstance(x, "SIDH")
      THEN hash_tuple(<<x.self.p, hash_curve(x.self.E), hash_point(x.self.PA),
                        hash_point(x.self.QA), hash_point(x.self.PB),
                        hash_point(x.self.QB)>>)
      ELSE hash_tuple(<<hash_field(x.self.field), x.self.generator>>)

\* KeyExchangeBase.__eq__
KeyExchangeBase_eq(self, other) ==
    isinstance(other, type(self)) /\ tuple_eq(parameters(self), parameters(other))

\* a plausible slip: the hash of the object, not of its parameters
KeyExchangeBase_hash_identity(self) == self.ident

\* KeyExchangeBase.__hash__
KeyExchangeBase_hash(self) == hash_parameters(self)

\* x == y: the method of the right operand is tried first when its class is
\* a proper subclass of the class of the left one; __eq__ always answers
richcompare_eq(x, y) ==
    IF type(y) # type(x) /\ issubclass(type(y), type(x))
      THEN KeyExchangeBase_eq(y, x)
      ELSE KeyExchangeBase_eq(x, y)

----------------------------------------------------------------------------
(* Initial state *)

NoCall == [op |-> "none"]

\* no basis search is running
NoSearch == [pc |-> "idle"]

\* a name that is not bound to an object yet
NoObject == [ident |-> 0, self |-> NoInstance]

NoKey == 0 - 1

NoSecret == [none |-> TRUE]

IdleRun == [pc |-> "idle", alice_sk |-> NoKey, alice_pk |-> << >>, bob_sk |-> NoKey,
            bob_pk |-> << >>, alice_shared_secret |-> NoSecret,
            bob_shared_secret |-> NoSecret]

Init ==
    /\ inst = NoInstance
    /\ err = NoError
    /\ log = << >>
    /\ call = NoCall
    /\ params0 = << >>
    /\ rng = 0
    /\ last = NoCall
    /\ kept = [call |-> NoCall, rng |-> 0]
    /\ run = IdleRun
    /\ left = NoObject
    /\ right = NoObject
    /\ cmp = NoCall
    /\ search = NoSearch
    /\ root = NoCall

Constructed == inst.cls # "none"

\* instances whose group fits the model; those of the standard sizes do not
Operable == Constructed /\ IsSmall(inst.p)

----------------------------------------------------------------------------
(* Construction *)

Chars == {q \in 2..MaxChar : is_prime(q)}

Degrees == {1, 2}

PointChoices == {"std", "inf", "off"}

Names == {"toy", "p434", "p503", "p610", "p751", "bogus", ""}

\* a point handed to the constructor as the role-th basis point of E: the
\* standard basis point, the point at infinity, or a point of another curve
CtorPoint(E, role, choice) ==
    LET N  == CurveN(E)
        mA == N \div Pow(2, valuation(N, 2))
        mB == N \div Pow(3, valuation(N, 3))
    IN  IF choice = "off" THEN Point(Curve(E.char, E.degree, "E1"), <<role, 0>>)
        ELSE IF choice = "inf" THEN Point(E, <<0, 0>>)
        ELSE Point(E, CASE role = 1 -> <<mA, 0>> [] role = 2 -> <<0, mA>>
                        [] role = 3 -> <<mB, 0>> [] OTHER -> <<0, mB>>)

Finish(r, c) ==
    /\ inst' = r.obj
    /\ err' = r.err
    /\ log' = r.log
    /\ call' = c
    /\ params0' = IF r.err.type = "none" THEN SIDH_parameters(r.obj) ELSE << >>
    /\ UNCHANGED <<rng, last, kept, run, left, right, cmp, search, root>>

NotYet == call.op = "none"

\* SIDH(E, PA, QA, PB, QB)
Construct ==
    /\ NotYet
    /\ \E char \in Chars, degree \in Degrees, cPA \in PointChoices,
          cQA \in {"std", "off"}, cPB \in {"std", "off"}, cQB \in {"std", "off"} :
          LET E  == Curve(char, degree, "E")
              PA == CtorPoint(E, 1, cPA)
              QA == CtorPoint(E, 2, cQA)
              PB == CtorPoint(E, 3, cPB)
              QB == CtorPoint(E, 4, cQB)
          IN  Finish(SIDH_init("SIDH", E, PA, QA, PB, QB, << >>),
                     [op |-> "SIDH", E |-> E, PA |-> PA, QA |-> QA, PB |-> PB, QB |-> QB])

\* SIDH.parameter_set_from_prime(n)
ParameterSetFromPrime ==
    /\ NotYet
    /\ \E n \in 0..MaxPrimeArg, tp \in Oracles(TrialKinds),
          pbo \in Oracles(PBKinds), qbo \in Oracles(QBKinds) :
          Finish(parameter_set_from_prime("SIDH", n, tp, pbo, qbo),
                 [op |-> "parameter_set_from_prime", prime |-> n])

\* SIDH.named_parameter_set(name)
NamedParameterSet ==
    /\ NotYet
    /\ \E name \in Names, tp \in Oracles(TrialKinds),
          pbo \in Oracles(PBKinds), qbo \in Oracles(QBKinds) :
          Finish(SIDH_named_parameter_set("SIDH", name, tp, pbo, qbo),
                 [op |-> "named_parameter_set", name |-> name])

----------------------------------------------------------------------------
(* Calls of the methods of the instance.  The code is synchronous: a call *)
(* is made when no do_key_exchange is under way.                           *)

Draw(n) == (rng + n) % RngPeriod

Completed(op, args, result) == [op |-> op, args |-> args, result |-> result]

Idle == Operable /\ run.pc = "idle"

Done(op, args, result, draws) ==
    /\ last' = Completed(op, args, result)
    /\ rng' = Draw(draws)
    /\ UNCHANGED <<inst, err, log, call, params0, kept, run, left, right, cmp, search, root>>

AliceSecretKey ==
    /\ Idle
    /\ \E k \in alice_secret_key(inst) : Done("alice_secret_key", << >>, k, 1)

BobSecretKey ==
    /\ Idle
    /\ \E k \in bob_secret_key(inst) : Done("bob_secret_key", << >>, k, 1)

AlicePublicKey ==
    /\ Idle
    /\ \E k \in 0..inst.e_A : Done("alice_public_key", <<k>>, alice_public_key(inst, k), 0)

BobPublicKey ==
    /\ Idle
    /\ \E k \in 0..inst.e_B : Done("bob_public_key", <<k>>, bob_public_key(inst, k), 0)

AliceComputeSharedSecret ==
    /\ Idle
    /\ \E a \in 0..inst.e_A, b \in 0..inst.e_B :
          LET bob_pk == bob_public_key(inst, b)
          IN  Done("alice_compute_shared_secret", <<a, bob_pk>>,
                   alice_compute_shared_secret(inst, a, bob_pk), 0)

BobComputeSharedSecret ==
    /\ Idle
    /\ \E a \in 0..inst.e_A, b \in 0..inst.e_B :
          LET alice_pk == alice_public_key(inst, a)
          IN  Done("bob_compute_shared_secret", <<b, alice_pk>>,
                   bob_compute_shared_secret(inst, b, alice_pk), 0)

SecretIsogenyPath ==
    /\ Idle
    /\ \/ \E k \in 0..inst.e_A :
            Done("secret_isogeny_path", <<inst.E, k, inst.PA, inst.QA>>,
                 secret_isogeny_path(inst, inst.E, k, inst.PA, inst.QA), 0)
       \/ \E k \in 0..inst.e_B :
            Done("secret_isogeny_path", <<inst.E, k, inst.PB, inst.QB>>,
                 secret_isogeny_path(inst, inst.E, k, inst.PB, inst.QB), 0)

\* a plausible slip: the key pair is cached on the instance
AliceKeyPair_caching ==
    /\ Operable /\ run.pc = "idle"
    /\ \E kp \in alice_key_pair(inst) :
          /\ last' = [op |-> "alice_key_pair", args |-> << >>, result |-> kp]
          /\ inst' = ("_alice_sk" :> kp[1]) @@ inst
          /\ rng' = (rng + 1) % RngPeriod
          /\ UNCHANGED <<err, log, call, params0, kept, run, left, right, cmp, search, root>>

AliceKeyPair ==
    /\ Idle
    /\ \E kp \in alice_key_pair(inst) : Done("alice_key_pair", << >>, kp, 1)

BobKeyPair ==
    /\ Idle
    /\ \E kp \in bob_key_pair(inst) : Done("bob_key_pair", << >>, kp, 1)

\* KeyExchangeBase._test_key_exchange
TestKeyExchange ==
    /\ Idle
    /\ \E akp \in alice_key_pair(inst), bkp \in bob_key_pair(inst) :
          LET alice_shared_secret == alice_compute_shared_secret(inst, akp[1], bkp[2])
              bob_shared_secret   == bob_compute_shared_secret(inst, bkp[1], akp[2])
          IN  Done("_test_key_exchange", << >>,
                   [alice_sk |-> akp[1], bob_sk |-> bkp[1],
                    alice_shared_secret |-> alice_shared_secret,
                    bob_shared_secret |-> bob_shared_secret,
                    passed |-> alice_shared_secret = bob_shared_secret], 2)

DerivedOps ==
    {"alice_public_key", "bob_public_key", "alice_compute_shared_secret",
     "bob_compute_shared_secret", "secret_isogeny_path"}

\* the caller caches the derived value just computed
Keep ==
    /\ Idle
    /\ last.op \in DerivedOps
    /\ kept' = [call |-> last, rng |-> rng]
    /\ UNCHANGED <<inst, err, log, call, params0, rng, last, run, left, right, cmp, search, root>>

----------------------------------------------------------------------------
(* KeyExchangeBase.do_key_exchange, one method call per step *)

RunStep(r, c, draws) ==
    /\ run' = r
    /\ last' = c
    /\ rng' = Draw(draws)
    /\ UNCHANGED <<inst, err, log, call, params0, kept, left, right, cmp, search, root>>

\* alice_key_pair: alice_sk = self.alice_secret_key()
RunAliceSecretKey ==
    /\ Idle
    /\ \E k \in alice_secret_key(inst) :
          RunStep([IdleRun EXCEPT !.pc = "alice_sk", !.alice_sk = k],
                  Completed("alice_secret_key", << >>, k), 1)

\* alice_key_pair: alice_pk = self.alice_public_key(alice_sk)
RunAlicePublicKey ==
    /\ run.pc = "alice_sk"
    /\ LET alice_pk == alice_public_key(inst, run.alice_sk)
       IN  RunStep([run EXCEPT !.pc = "alice_pk", !.alice_pk = alice_pk],
                   Completed("alice_public_key", <<run.alice_sk>>, alice_pk), 0)

\* bob_key_pair: bob_sk = self.bob_secret_key()
RunBobSecretKey ==
    /\ run.pc = "alice_pk"
    /\ \E k \in bob_secret_key(inst) :
          RunStep([run EXCEPT !.pc = "bob_sk", !.bob_sk = k],
                  Completed("bob_secret_key", << >>, k), 1)

\* bob_key_pair: bob_pk = self.bob_public_key(bob_sk)
RunBobPublicKey ==
    /\ run.pc = "bob_sk"
    /\ LET bob_pk == bob_public_key(inst, run.bob_sk)
       IN  RunStep([run EXCEPT !.pc = "bob_pk", !.bob_pk = bob_pk],
                   Completed("bob_public_key", <<run.bob_sk>>, bob_pk), 0)

\* a plausible slip: Alice's secret from her own public key
RunAliceSharedSecret_own_key ==
    /\ run.pc = "bob_pk"
    /\ LET alice_shared_secret == alice_compute_shared_secret(inst, run.alice_sk, run.alice_pk)
       IN  RunStep([run EXCEPT !.pc = "alice_ss", !.alice_shared_secret = alice_shared_secret],
                   Completed("alice_compute_shared_secret", <<run.alice_sk, run.alice_pk>>,
                             alice_shared_secret), 0)

\* alice_shared_secret = self.alice_compute_shared_secret(alice_sk, bob_pk)
RunAliceSharedSecret ==
    /\ run.pc = "bob_pk"
    /\ LET alice_shared_secret == alice_compute_shared_secret(inst, run.alice_sk, run.bob_pk)
       IN  RunStep([run EXCEPT !.pc = "alice_ss", !.alice_shared_secret = alice_shared_secret],
                   Completed("alice_compute_shared_secret", <<run.alice_sk, run.bob_pk>>,
                             alice_shared_secret), 0)

\* self.bob_compute_shared_secret(bob_sk, alice_pk)
RunBobSharedSecret ==
    /\ run.pc = "alice_ss"
    /\ LET bob_shared_secret == bob_compute_shared_secret(inst, run.bob_sk, run.alice_pk)
       IN  RunStep([run EXCEPT !.pc = "bob_ss", !.bob_shared_secret = bob_shared_secret],
                   Completed("bob_compute_shared_secret", <<run.bob_sk, run.alice_pk>>,
                             bob_shared_secret), 0)

\* the comparison of the two secrets and the exit: the 5-tuple or the error
RunExit ==
    /\ run.pc = "bob_ss"
    /\ LET x == do_key_exchange_exit(run.alice_sk, run.alice_pk, run.bob_sk, run.bob_pk,
                                     run.alice_shared_secret, run.bob_shared_secret)
       IN  RunStep(IdleRun,
                   [op |-> "do_key_exchange", args |-> << >>, result |-> x.out,
                    exit |-> x.pc, err |-> x.err, locals |-> run], 0)

----------------------------------------------------------------------------
(* Two objects and their comparison *)

Operands == {"left", "right"}

SIDHClasses == {"SIDH", "UserSIDH"}

EqCurves == {Curve(char, 2, "E") : char \in Chars} \cup {ToyCurve}

NoPoints == [i \in 1..OracleSpan |-> "none"]

\* the identity of a new object, which is not that of the other operand
NewIdent(o) == IF o.ident = 1 THEN 2 ELSE 1

\* nm = r.obj, when the construction r succeeded
Bind(nm, r) ==
    /\ r.err.type = "none"
    /\ IF nm = "left"
         THEN left' = [ident |-> NewIdent(right), self |-> r.obj] /\ UNCHANGED right
         ELSE right' = [ident |-> NewIdent(left), self |-> r.obj] /\ UNCHANGED left

\* nm = cls(E, PA, QA, PB, QB)
BindSIDH ==
    /\ \E nm \in Operands, cls \in SIDHClasses, E \in EqCurves, cPA \in {"std", "inf"} :
          Bind(nm, SIDH_init(cls, E, CtorPoint(E, 1, cPA), CtorPoint(E, 2, "std"),
                             CtorPoint(E, 3, "std"), CtorPoint(E, 4, "std"), << >>))
    /\ cmp' = NoCall
    /\ UNCHANGED <<inst, err, log, call, params0, rng, last, kept, run, search, root>>

\* nm = cls.named_parameter_set('toy')
BindNamed ==
    /\ \E nm \in Operands, cls \in SIDHClasses :
          Bind(nm, SIDH_named_parameter_set(cls, "toy", NoPoints, NoPoints, NoPoints))
    /\ cmp' = NoCall
    /\ UNCHANGED <<inst, err, log, call, params0, rng, last, kept, run, search, root>>

\* nm = FiniteFieldDiffieHellman(p, generator)
BindFiniteFieldDiffieHellman ==
    /\ \E nm \in Operands, p \in 0..MaxChar, generator \in 0..MaxGenerator :
          Bind(nm, FiniteFieldDiffieHellman_init("FiniteFieldDiffieHellman", p, generator))
    /\ cmp' = NoCall
    /\ UNCHANGED <<inst, err, log, call, params0, rng, last, kept, run, search, root>>

\* right = left: two names of one object
BindSame ==
    /\ left.ident # 0
    /\ right' = left
    /\ cmp' = NoCall
    /\ UNCHANGED <<inst, err, log, call, params0, rng, last, kept, run, left, search, root>>

\* left == right, right == left, hash(left), hash(right)
Compare ==
    /\ left.ident # 0
    /\ right.ident # 0
    /\ cmp.op = "none"
    /\ cmp' = [op |-> "compare",
               left_eq_right |-> richcompare_eq(left, right),
               right_eq_left |-> richcompare_eq(right, left),
               hash_left |-> KeyExchangeBase_hash(left),
               hash_right |-> KeyExchangeBase_hash(right)]
    /\ UNCHANGED <<inst, err, log, call, params0, rng, last, kept, run, left, right, search, root>>

----------------------------------------------------------------------------
(* SIDH.parameter_set_from_prime, one trial x-coordinate per step.  The   *)
(* library shows a point of some kind at each of the first OracleSpan      *)
(* x-coordinates and none at the later ones; trial_points shows the same   *)
(* points to the search of QA as it showed to the search of PA.            *)

SearchOrder == <<"PA", "QA", "PB", "QB">>

Searches == {"PA", "QA", "PB", "QB"}

\* the search that follows the search nm
next_search(nm) ==
    CASE nm = "PA" -> "QA" [] nm = "QA" -> "PB" [] nm = "PB" -> "QB" [] OTHER -> "cls"

\* a plausible slip: one x-coordinate too many
in_range_inclusive(c, p) == c <= p

\* for c in range(p)
in_range(c, p) == c < p

\* the predicate under which the search nm breaks
search_breaks(s, nm, kind) ==
    CASE nm = "PA" -> PA_found(s.E, s.e_A, s.e_B, kind)
      [] nm = "QA" -> QA_found(s.E, s.e_A, s.e_B, kind)
      [] OTHER -> B_found(s.E, s.e_A, s.e_B, kind)

\* PA = 3**e_B * R, QA = 3**e_B * R, PB = 2**(e_A - 1) * E(...), QB likewise
search_point(s, nm, kind) ==
    IF nm \in {"PA", "QA"} THEN BasisPoint(s.E, Pow(3, s.e_B), kind, 0)
    ELSE BasisPoint(s.E, Pow(2, s.e_A - 1), kind, 0)

\* the kinds of the point that the library may show at the x-coordinate c
kinds_at(s, c) ==
    IF c >= OracleSpan THEN {"none"}
    ELSE IF s.pc = "PA" THEN TrialKinds
    ELSE IF s.pc = "QA" THEN (IF c < Len(s.seen) THEN {s.seen[c + 1]} ELSE TrialKinds)
    ELSE IF s.pc = "PB" THEN PBKinds
    ELSE QBKinds

\* the call with its locals before the first search
SearchAt(cls, p) ==
    [pc |-> "PA", cls |-> cls, p |-> p, e_A |-> succ_valuation(p, 2),
     e_B |-> succ_valuation(p, 3), E |-> Curve(p, 2, "E6"), c |-> 0, seen |-> << >>,
     kinds |-> << >>, loops |-> << >>, pts |-> << >>, err |-> NoError, obj |-> NoInstance]

\* the call, up to the first search
SearchStart ==
    /\ search.pc = "idle"
    /\ \E prime \in 0..MaxPrimeArg :
          LET s == SearchAt("SIDH", prime)
          IN  search' =
                IF ~p_is_prime(prime)
                  THEN [s EXCEPT !.pc = "raised",
                                 !.err = ValueError("p must be prime", [none |-> TRUE])]
                ELSE IF ~modulus_irreducible(prime)
                  THEN [s EXCEPT !.pc = "raised",
                                 !.err = ValueError("finite field modulus must be irreducible but it is not",
                                                    [none |-> TRUE])]
                ELSE s
    /\ UNCHANGED <<inst, err, log, call, params0, rng, last, kept, run, left, right, cmp, root>>

\* one pass of the body of the running loop: the x-coordinate c
SearchTrial ==
    /\ search.pc \in Searches
    /\ in_range(search.c, search.p)
    /\ \E kind \in kinds_at(search, search.c) :
          LET nm    == search.pc
              tried == Append(search.kinds, kind)
              seen  == IF nm = "PA" /\ search.c < OracleSpan
                         THEN Append(search.seen, kind) ELSE search.seen
          IN  IF ~search_breaks(search, nm, kind)
                THEN search' = [search EXCEPT !.c = search.c + 1, !.kinds = tried,
                                              !.seen = seen]
                ELSE LET pts  == Append(search.pts, search_point(search, nm, kind))
                         done == Append(search.loops,
                                        [name |-> nm, kinds |-> tried, found |-> TRUE])
                         r    == SIDH_init(search.cls, search.E, pts[1], pts[2], pts[3],
                                           pts[4], << >>)
                     IN  IF next_search(nm) # "cls"
                           THEN search' = [search EXCEPT !.pc = next_search(nm), !.c = 0,
                                                         !.kinds = << >>, !.seen = seen,
                                                         !.loops = done, !.pts = pts]
                           ELSE search' = [search EXCEPT
                                             !.pc = IF r.err.type = "none" THEN "returned"
                                                    ELSE "raised",
                                             !.kinds = << >>, !.loops = done, !.pts = pts,
                                             !.err = r.err, !.obj = r.obj]
    /\ UNCHANGED <<inst, err, log, call, params0, rng, last, kept, run, left, right, cmp, root>>

\* the else branch of the running loop: no x-coordinate is left
SearchExhausted ==
    /\ search.pc \in Searches
    /\ ~in_range(search.c, search.p)
    /\ search' = [search EXCEPT !.pc = "raised", !.err = failed_to_find(search.pc),
                                !.kinds = << >>,
                                !.loops = Append(search.loops,
                                                 [name |-> search.pc, kinds |-> search.kinds,
                                                  found |-> FALSE])]
    /\ UNCHANGED <<inst, err, log, call, params0, rng, last, kept, run, left, right, cmp, root>>

----------------------------------------------------------------------------
(* An instance of FiniteFieldDiffieHellman and the calls of its methods *)

\* FiniteFieldDiffieHellman(p, generator)
ConstructFiniteFieldDiffieHellman ==
    /\ NotYet
    /\ \E p \in 0..MaxDHPrime, generator \in 0..MaxGenerator :
          LET r == FiniteFieldDiffieHellman_init("FiniteFieldDiffieHellman", p, generator)
          IN  /\ inst' = r.obj
              /\ err' = r.err
              /\ log' = r.log
              /\ call' = [op |-> "FiniteFieldDiffieHellman", p |-> p,
                          generator |-> generator]
              /\ params0' = IF r.err.type = "none"
                              THEN FiniteFieldDiffieHellman_parameters(r.obj) ELSE << >>
    /\ UNCHANGED <<rng, last, kept, run, left, right, cmp, search, root>>

IsDH == Idle /\ inst.cls = "FiniteFieldDiffieHellman"

\* secret_key(), alice_secret_key(), bob_secret_key()
DHSecretKey ==
    /\ IsDH
    /\ \E op \in {"secret_key", "alice_secret_key", "bob_secret_key"} :
          \E k \in (CASE op = "alice_secret_key" ->
                            CommutativeKeyExchangeBase_alice_secret_key(inst)
                      [] op = "bob_secret_key" ->
                            CommutativeKeyExchangeBase_bob_secret_key(inst)
                      [] OTHER -> FiniteFieldDiffieHellman_secret_key(inst)) :
             Done(op, << >>, k, 1)

\* public_key(secret_key), alice_public_key(secret_key), bob_public_key(secret_key)
DHPublicKey ==
    /\ IsDH
    /\ \E op \in {"public_key", "alice_public_key", "bob_public_key"},
          k \in 0..(inst.p - 1) :
          Done(op, <<k>>,
               CASE op = "alice_public_key" ->
                         CommutativeKeyExchangeBase_alice_public_key(inst, k)
                 [] op = "bob_public_key" ->
                         CommutativeKeyExchangeBase_bob_public_key(inst, k)
                 [] OTHER -> FiniteFieldDiffieHellman_public_key(inst, k), 0)

\* compute_shared_secret(secret_key, public_key) and its two aliases
DHComputeSharedSecret ==
    /\ IsDH
    /\ \E op \in {"compute_shared_secret", "alice_compute_shared_secret",
                  "bob_compute_shared_secret"},
          k \in FiniteFieldDiffieHellman_secret_key(inst), pk \in 0..(inst.p - 1) :
          Done(op, <<k, pk>>,
               CASE op = "alice_compute_shared_secret" ->
                         CommutativeKeyExchangeBase_alice_compute_shared_secret(inst, k, pk)
                 [] op = "bob_compute_shared_secret" ->
                         CommutativeKeyExchangeBase_bob_compute_shared_secret(inst, k, pk)
                 [] OTHER -> FiniteFieldDiffieHellman_compute_shared_secret(inst, k, pk), 0)

\* do_key_exchange()
DHDoKeyExchange ==
    /\ IsDH
    /\ \E x \in CommutativeKeyExchangeBase_do_key_exchange(inst) :
          /\ last' = [op |-> "do_key_exchange", args |-> << >>, result |-> x.out,
                      exit |-> x.pc, err |-> x.err]
          /\ rng' = Draw(2)
          /\ UNCHANGED <<inst, err, log, call, params0, kept, run, left, right, cmp,
                         search, root>>

----------------------------------------------------------------------------
(* Calls of canonical_square_root *)

\* the odd primes p for which x^2 + 1 is irreducible over GF(p)
RootPrimes == {p \in 3..MaxPrimeArg : is_prime(p) /\ modulus_irreducible(p)}

\* canonical_square_root(s) for a square s of GF(p^2)
CanonicalSquareRoot ==
    /\ \E p \in RootPrimes :
          \E s \in Fp2(p) :
             \E r \in fp2_sqrt(p, s) :
                root' = [op |-> "canonical_square_root", p |-> p, s |-> s, sqrt |-> r,
                         result |-> canonical_square_root(p, s, r)]
    /\ UNCHANGED <<inst, err, log, call, params0, rng, last, kept, run, left, right, cmp,
                   search>>

----------------------------------------------------------------------------
(* Specifications *)

Build == Construct \/ ParameterSetFromPrime \/ NamedParameterSet

Calls ==
    \/ AliceSecretKey \/ BobSecretKey \/ AlicePublicKey \/ BobPublicKey
    \/ AliceComputeSharedSecret \/ BobComputeSharedSecret \/ SecretIsogenyPath
    \/ AliceKeyPair \/ BobKeyPair \/ TestKeyExchange

Exchange ==
    \/ RunAliceSecretKey \/ RunAlicePublicKey \/ RunBobSecretKey \/ RunBobPublicKey
    \/ RunAliceSharedSecret \/ RunBobSharedSecret \/ RunExit

Next == Build \/ Calls \/ Exchange

Spec == Init /\ [][Next]_vars

\* the calls of the methods alone, the caller remembering results
NextPure == Construct \/ Calls \/ Keep

SpecPure == Init /\ [][NextPure]_vars

\* the construction of two objects and their comparison
NextEq == BindSIDH \/ BindNamed \/ BindFiniteFieldDiffieHellman \/ BindSame \/ Compare

SpecEq == Init /\ [][NextEq]_vars

\* an instance of FiniteFieldDiffieHellman and the calls of its methods
NextDH ==
    \/ ConstructFiniteFieldDiffieHellman \/ DHSecretKey \/ DHPublicKey
    \/ DHComputeSharedSecret \/ DHDoKeyExchange

SpecDH == Init /\ [][NextDH]_vars

\* calls of canonical_square_root
NextRoot == CanonicalSquareRoot

SpecRoot == Init /\ [][NextRoot]_vars

\* one call of parameter_set_from_prime, which runs to its end
NextSearch == SearchStart \/ SearchTrial \/ SearchExhausted

SpecSearch == Init /\ [][NextSearch]_vars /\ WF_vars(NextSearch)

----------------------------------------------------------------------------
(* Properties *)

PointsGenerate(P, Q, n) ==
    LET E == P.curve
        N == CurveN(E)
    IN  /\ point_order(P) = n
        /\ point_order(Q) = n
        /\ LatDet(E.lat) \div LatDet(LatAdd(LatAdd(E.lat, P.xy, N), Q.xy, N)) = n * n

\* a valid SIDH parameter set: positive exponents, (PA, QA) a basis of the
\* 2^e_A-torsion and (PB, QB) a basis of the 3^e_B-torsion
ValidParameterSet(self) ==
    /\ self.e_A >= 1
    /\ self.e_B >= 1
    /\ PointsGenerate(self.PA, self.QA, Pow(2, self.e_A))
    /\ PointsGenerate(self.PB, self.QB, Pow(3, self.e_B))

\* C1: on a valid parameter set, after an honest exchange of public keys
\* (by _test_key_exchange or inside do_key_exchange) the secret Alice
\* computes from Bob's public key equals the secret Bob computes from
\* Alice's public key, whatever the two secret keys.
SIDHConsistency ==
    (Operable /\ ValidParameterSet(inst)) =>
        /\ last.op = "_test_key_exchange" =>
              /\ last.result.alice_shared_secret = last.result.bob_shared_secret
              /\ last.result.alice_shared_secret =
                    alice_compute_shared_secret(inst, last.result.alice_sk,
                                                bob_public_key(inst, last.result.bob_sk))
              /\ last.result.bob_shared_secret =
                    bob_compute_shared_secret(inst, last.result.bob_sk,
                                              alice_public_key(inst, last.result.alice_sk))
        /\ run.pc = "bob_ss" => run.alice_shared_secret = run.bob_shared_secret

SIDHConsistencyWitness ==
    /\ Operable /\ ValidParameterSet(inst)
    /\ last.op = "_test_key_exchange"
    /\ last.result.alice_sk = inst.e_A
    /\ last.result.bob_sk = inst.e_B
    /\ last.result.alice_shared_secret = last.result.bob_shared_secret

KnownNames == {"toy", "p434", "p503", "p610", "p751"}

\* C3: named_parameter_set(name) with a name other than the five known
\* ones fails with the unknown-parameter-set-name error, which identifies
\* the scheme type and the bad name, and returns no instance.
UnknownNameError ==
    (call.op = "named_parameter_set" /\ call.name \notin KnownNames) =>
        /\ ~Constructed
        /\ err.type = "ValueError"
        /\ err.msg = "Unknown parameter set name"
        /\ err.about = [name |-> call.name, cls |-> "SIDH"]

\* C4: alice_secret_key() returns k with 0 <= k <= e_A and bob_secret_key()
\* returns k with 0 <= k <= e_B, where e_A = v_2(p + 1) and e_B = v_3(p + 1),
\* and each of the four end values can be returned.
SecretKeyRange ==
    Operable =>
        /\ inst.e_A = valuation(inst.p + 1, 2)
        /\ inst.e_B = valuation(inst.p + 1, 3)
        /\ last.op = "alice_secret_key" => last.result \in 0..inst.e_A
        /\ last.op = "bob_secret_key" => last.result \in 0..inst.e_B
        /\ run.pc = "idle" =>
              /\ ENABLED (AliceSecretKey /\ last'.result = 0)
              /\ ENABLED (AliceSecretKey /\ last'.result = inst.e_A)
              /\ ENABLED (BobSecretKey /\ last'.result = 0)
              /\ ENABLED (BobSecretKey /\ last'.result = inst.e_B)

SecretKeyRangeWitness ==
    /\ Operable
    /\ inst.e_A >= 2
    /\ last.op = "alice_secret_key"
    /\ last.result = inst.e_A

\* C7: the constructor fails with the invalid-parameter error and leaves no
\* instance (so that no key can be generated) whenever p is not
\* 2^v_2(p+1) * 3^v_3(p+1) - 1, or the field is not of degree 2, or one of
\* PA, QA, PB, QB is not on E; the checks are made in that order and the
\* first failing check decides the error.  Otherwise it builds the instance.
ConstructorChecks ==
    call.op = "SIDH" =>
        LET E   == call.E
            p   == E.char
            pts == <<call.PA, call.QA, call.PB, call.QB>>
            off == {i \in 1..4 : pts[i].curve # E}
            fst == CHOOSE i \in off : \A j \in off : i <= j
            failed(msg) == /\ ~Constructed
                           /\ err.type = "ValueError"
                           /\ err.msg = msg
                           /\ last = NoCall /\ run = IdleRun /\ rng = 0
        IN  IF Pow(2, valuation(p + 1, 2)) * Pow(3, valuation(p + 1, 3)) - 1 # p
              THEN failed("curve must be over characteristic 2^e_A * 3^e_B - 1")
            ELSE IF E.degree # 2
              THEN failed("curve must be defined over a degree two field extension")
            ELSE IF off # {}
              THEN /\ failed("is not on")
                   /\ err.about = [point |-> pts[fst], curve |-> E]
            ELSE /\ Constructed
                 /\ err.type = "none"
                 /\ params0 = <<p, E, call.PA, call.QA, call.PB, call.QB>>

ConstructorChecksWitness ==
    /\ call.op = "SIDH"
    /\ call.E.char = 11
    /\ call.E.degree = 2
    /\ call.PA.curve = call.E
    /\ call.QA.curve # call.E
    /\ call.PB.curve # call.E
    /\ ~Constructed
    /\ err.about = [point |-> call.QA, curve |-> call.E]

InstanceAttributes == {"cls", "p", "e_A", "e_B", "E", "PA", "QA", "PB", "QB", "name"}

PrimeCheckedFirst ==
    /\ call.op = "parameter_set_from_prime" =>
          /\ Len(log) >= 1
          /\ log[1] = Step("is_prime", 0)
          /\ ~is_prime(call.prime) =>
                /\ ~Constructed
                /\ err = ValueError("p must be prime", [none |-> TRUE])
                /\ log = <<Step("is_prime", 0)>>
    /\ (call.op = "named_parameter_set" /\ call.name \in DOMAIN StandardExponents) =>
          /\ Len(log) >= 1
          /\ log[1] = Step("is_prime", 0)

PrimeCheckedFirstWitness ==
    /\ call.op = "parameter_set_from_prime"
    /\ call.prime = 9
    /\ ~Constructed
    /\ err.msg = "p must be prime"

SameParameters == tuple_eq(parameters(left), parameters(right))

Compared == cmp.op = "compare"

\* C5: for any two instances a and b, of the same or of different classes and
\* in either operand order, a == b holds if and only if
\* a.parameters() == b.parameters()
EqualityIffParameters ==
    Compared =>
        /\ cmp.left_eq_right <=> SameParameters
        /\ cmp.right_eq_left <=> SameParameters

SearchEnded == search.pc \in {"returned", "raised"}

\* what holds of the searches made so far
BoundedSearchSafe ==
    search.pc # "idle" =>
        /\ Len(search.loops) <= 4
        /\ search.pc \in Searches =>
              /\ search.pc = SearchOrder[Len(search.loops) + 1]
              /\ search.c <= search.p
              /\ Len(search.kinds) = search.c
              /\ \A j \in 1..Len(search.kinds) :
                    ~search_breaks(search, search.pc, search.kinds[j])
        /\ search.pc = "returned" =>
              /\ Len(search.loops) = 4
              /\ search.obj # NoInstance
        /\ \A i \in 1..Len(search.loops) :
              LET l == search.loops[i]
              IN  /\ l.name = SearchOrder[i]
                  /\ Len(l.kinds) <= search.p
                  /\ \A j \in 1..Len(l.kinds) :
                        search_breaks(search, l.name, l.kinds[j])
                           <=> (l.found /\ j = Len(l.kinds))
                  /\ ~l.found =>
                        /\ Len(l.kinds) = search.p
                        /\ i = Len(search.loops)
                        /\ search.pc = "raised"
                        /\ search.err = failed_to_find(l.name)
                        /\ search.obj = NoInstance

\* C11: parameter_set_from_prime always ends; the searches run in the order
\* PA, QA, PB, QB, each examines at most p x-coordinates and stops at the
\* first candidate that satisfies its predicate; a search that has examined
\* all p x-coordinates fails with the error that names its point, no later
\* search is run and no instance is returned
BoundedSearch == [](BoundedSearchSafe) /\ <>SearchEnded

\* the search of QA examined all p x-coordinates after PA was found
BoundedSearchWitness ==
    /\ search.pc = "raised"
    /\ search.err = failed_to_find("QA")
    /\ Len(search.loops) = 2
    /\ search.loops[1].found
    /\ Len(search.loops[2].kinds) = search.p
    /\ search.obj = NoInstance

IsFiniteFieldDiffieHellman == Constructed /\ inst.cls = "FiniteFieldDiffieHellman"

\* C12: on every FiniteFieldDiffieHellman instance (p >= 5 prime, g in GF(p))
\* and for all secret keys a, b in [2, p - 2], the secret that one party
\* computes from its key and the public key of the other is the secret that
\* the other computes, through compute_shared_secret and through the methods
\* of the two parties alike; do_key_exchange never raises the mismatch error
DHConsistency ==
    /\ IsFiniteFieldDiffieHellman =>
          \A a, b \in FiniteFieldDiffieHellman_secret_key(inst) :
             /\ FiniteFieldDiffieHellman_compute_shared_secret(inst, a,
                    FiniteFieldDiffieHellman_public_key(inst, b))
                  = FiniteFieldDiffieHellman_compute_shared_secret(inst, b,
                        FiniteFieldDiffieHellman_public_key(inst, a))
             /\ CommutativeKeyExchangeBase_alice_compute_shared_secret(inst, a,
                    CommutativeKeyExchangeBase_bob_public_key(inst, b))
                  = CommutativeKeyExchangeBase_bob_compute_shared_secret(inst, b,
                        CommutativeKeyExchangeBase_alice_public_key(inst, a))
    /\ (IsFiniteFieldDiffieHellman /\ last.op = "do_key_exchange") =>
          /\ last.exit = "returned"
          /\ last.err = NoError
          /\ last.result[5] = FiniteFieldDiffieHellman_compute_shared_secret(inst,
                                  last.result[3], last.result[2])

\* an exchange with two different keys and a secret that is neither 0 nor 1
DHConsistencyWitness ==
    /\ IsFiniteFieldDiffieHellman
    /\ last.op = "do_key_exchange"
    /\ last.exit = "returned"
    /\ last.result[1] # last.result[3]
    /\ last.result[5] > 1

\* C13: FiniteFieldDiffieHellman(p, g) with p < 5 fails with ValueError, and on
\* every instance secret_key(), alice_secret_key() and bob_secret_key() return
\* k with 2 <= k <= p - 2
DHKeyRange ==
    /\ (call.op = "FiniteFieldDiffieHellman" /\ call.p < 5) =>
          /\ ~Constructed
          /\ err = ValueError("p must be at least 5", [none |-> TRUE])
    /\ (IsFiniteFieldDiffieHellman
        /\ last.op \in {"secret_key", "alice_secret_key", "bob_secret_key"}) =>
          /\ 2 <= last.result
          /\ last.result <= inst.p - 2
    /\ (IsFiniteFieldDiffieHellman /\ last.op = "do_key_exchange") =>
          /\ 2 <= last.result[1] /\ last.result[1] <= inst.p - 2
          /\ 2 <= last.result[3] /\ last.result[3] <= inst.p - 2

\* the largest key, from the alias of one party
DHKeyRangeWitness ==
    /\ IsFiniteFieldDiffieHellman
    /\ last.op = "alice_secret_key"
    /\ last.result = inst.p - 2
    /\ inst.p > 5

IsSIDH == Constructed /\ inst.cls = "SIDH"

\* C14: every constructed SIDH instance has p = 2^e_A * 3^e_B - 1 with
\* e_A >= 1 and e_B >= 1; the constructor rejects the curves over the
\* characteristics 2, 3 and 7
PositiveExponents ==
    /\ IsSIDH =>
          /\ inst.e_A >= 1
          /\ inst.e_B >= 1
          /\ IsSmall(inst.p) => inst.p = Pow(2, inst.e_A) * Pow(3, inst.e_B) - 1
    /\ (call.op = "SIDH" /\ call.E.char \in {2, 3, 7}) => ~Constructed

\* C15: in every constructed SIDH instance, however it was built, PA and QA
\* have order 2^e_A and PB and QB have order 3^e_B; a call of the constructor
\* with a point of E of another order yields no instance
BasisOrderInvariant ==
    (IsSIDH /\ IsSmall(inst.p)) =>
        /\ point_order(inst.PA) = Pow(2, inst.e_A)
        /\ point_order(inst.QA) = Pow(2, inst.e_A)
        /\ point_order(inst.PB) = Pow(3, inst.e_B)
        /\ point_order(inst.QB) = Pow(3, inst.e_B)


\* the state of a party in the running exchange, from its locals:
\* 0 UNINITIALIZED, 1 SECRET_CHOSEN, 2 PUBLIC_KEY_COMPUTED, 3 SHARED_SECRET_COMPUTED
PartyState(sk, pk, ss) ==
    IF sk = NoKey THEN 0 ELSE IF pk = << >> THEN 1 ELSE IF ss = NoSecret THEN 2 ELSE 3

AliceState(r) == PartyState(r.alice_sk, r.alice_pk, r.alice_shared_secret)

BobState(r) == PartyState(r.bob_sk, r.bob_pk, r.bob_shared_secret)

\* Alice moves by one state, by the call that belongs to the move
AliceMoves ==
    /\ AliceState(run') = AliceState(run) + 1
    /\ <<run'.bob_sk, run'.bob_pk, run'.bob_shared_secret>>
          = <<run.bob_sk, run.bob_pk, run.bob_shared_secret>>
    /\ CASE AliceState(run') = 1 ->
               /\ last' = Completed("alice_secret_key", << >>, run'.alice_sk)
          [] AliceState(run') = 2 ->
               /\ run'.alice_sk = run.alice_sk
               /\ run'.alice_pk = alice_public_key(inst, run.alice_sk)
               /\ last' = Completed("alice_public_key", <<run.alice_sk>>, run'.alice_pk)
          [] OTHER ->
               /\ run'.alice_sk = run.alice_sk
               /\ run'.alice_pk = run.alice_pk
               /\ BobState(run) >= 2
               /\ run'.alice_shared_secret
                     = alice_compute_shared_secret(inst, run.alice_sk, run.bob_pk)
               /\ last' = Completed("alice_compute_shared_secret",
                                    <<run.alice_sk, run.bob_pk>>, run'.alice_shared_secret)

\* Bob moves by one state, by the call that belongs to the move
BobMoves ==
    /\ BobState(run') = BobState(run) + 1
    /\ <<run'.alice_sk, run'.alice_pk, run'.alice_shared_secret>>
          = <<run.alice_sk, run.alice_pk, run.alice_shared_secret>>
    /\ CASE BobState(run') = 1 ->
               /\ last' = Completed("bob_secret_key", << >>, run'.bob_sk)
          [] BobState(run') = 2 ->
               /\ run'.bob_sk = run.bob_sk
               /\ run'.bob_pk = bob_public_key(inst, run.bob_sk)
               /\ last' = Completed("bob_public_key", <<run.bob_sk>>, run'.bob_pk)
          [] OTHER ->
               /\ run'.bob_sk = run.bob_sk
               /\ run'.bob_pk = run.bob_pk
               /\ AliceState(run) >= 2
               /\ run'.bob_shared_secret
                     = bob_compute_shared_secret(inst, run.bob_sk, run.alice_pk)
               /\ last' = Completed("bob_compute_shared_secret",
                                    <<run.bob_sk, run.alice_pk>>, run'.bob_shared_secret)

\* the run ends when both parties have their secret; the next run starts
\* from two uninitialized parties
RunEnds ==
    /\ AliceState(run) = 3
    /\ BobState(run) = 3
    /\ run' = IdleRun
    /\ last'.op = "do_key_exchange"

\* C16: in every run of do_key_exchange each party moves UNINITIALIZED ->
\* SECRET_CHOSEN -> PUBLIC_KEY_COMPUTED -> SHARED_SECRET_COMPUTED, one state at
\* a time: the public key is computed from the secret key sampled in the same
\* run, the shared secret is computed when both public keys exist, from that
\* same secret key and the public key of the peer, and one secret key is
\* sampled per party per run
ProtocolOrder == [][run' # run => (AliceMoves \/ BobMoves \/ RunEnds)]_vars

\* both parties have computed their secret, from different keys
ProtocolOrderWitness ==
    /\ AliceState(run) = 3
    /\ BobState(run) = 3
    /\ run.alice_sk >= 1
    /\ run.bob_sk >= 1
    /\ run.alice_sk # run.bob_sk
    /\ run.alice_shared_secret = run.bob_shared_secret

\* C17: for an odd prime p with GF(p^2) = GF(p)[i]/(i^2 + 1) and a square s,
\* canonical_square_root(s) returns r = alpha + beta*i with r^2 = s, alpha even
\* if alpha # 0 and beta even otherwise; it returns the same r whichever of
\* the two roots of s the library computes
CanonicalRoot ==
    root.op = "canonical_square_root" =>
        LET r == root.result.value
        IN  /\ root.result.err = NoError
            /\ fp2_mul(root.p, r, r) = root.s
            /\ r[1] # 0 => r[1] % 2 = 0
            /\ r[1] = 0 => r[2] % 2 = 0
            /\ \A t \in fp2_sqrt(root.p, root.s) :
                  canonical_square_root(root.p, root.s, t) = root.result

\* the library returned the root that is not canonical, with alpha = 0
CanonicalRootWitness ==
    /\ root.op = "canonical_square_root"
    /\ root.sqrt[1] = 0
    /\ root.sqrt[2] % 2 = 1
    /\ root.result.value # root.sqrt
    /\ root.result.value = fp2_neg(root.p, root.sqrt)


\* the isogeny from C whose kernel is generated by P + k * Q, and its
\* codomain: the quotient of C by that subgroup
WalkFrom(C, k, P, Q) == isogeny(C, point_add(P, point_mul(k, Q)))

IsWalk(phi, C, k, P, Q) ==
    /\ phi.domain = C
    /\ phi.kernel = point_add(P, point_mul(k, Q))
    /\ phi.codomain.lat = LatAdd(C.lat, phi.kernel.xy, CurveN(C))

\* C18: alice_public_key(k) is (phi_A.codomain(), phi_A(PB), phi_A(QB)) with
\* phi_A the isogeny from E of kernel <PA + k*QA>; bob_public_key(k) is
\* (phi_B.codomain(), phi_B(PA), phi_B(QA)) with kernel <PB + k*QB>; the
\* shared secret of a party is the j-invariant of the codomain of the isogeny
\* from the curve E' of the peer with kernel <P' + k*Q'>, (E', P', Q') being
\* the public key of the peer and k the secret key of the party
WalkStructure ==
    /\ (IsSIDH /\ last.op = "alice_public_key") =>
          LET phi_A == WalkFrom(inst.E, last.args[1], inst.PA, inst.QA)
          IN  /\ IsWalk(phi_A, inst.E, last.args[1], inst.PA, inst.QA)
              /\ last.result = <<phi_A.codomain, iso_eval(phi_A, inst.PB),
                                 iso_eval(phi_A, inst.QB)>>
    /\ (IsSIDH /\ last.op = "bob_public_key") =>
          LET phi_B == WalkFrom(inst.E, last.args[1], inst.PB, inst.QB)
          IN  /\ IsWalk(phi_B, inst.E, last.args[1], inst.PB, inst.QB)
              /\ last.result = <<phi_B.codomain, iso_eval(phi_B, inst.PA),
                                 iso_eval(phi_B, inst.QA)>>
    /\ (IsSIDH /\ last.op \in {"alice_compute_shared_secret", "bob_compute_shared_secret"}) =>
          LET k   == last.args[1]
              pk  == last.args[2]
              phi == WalkFrom(pk[1], k, pk[2], pk[3])
          IN  /\ IsWalk(phi, pk[1], k, pk[2], pk[3])
              /\ last.result = j_invariant(phi.codomain)

\* a shared secret of the toy instance, computed from keys that both move
WalkStructureWitness ==
    /\ IsSIDH
    /\ inst.name = "sidh-toy"
    /\ last.op = "alice_compute_shared_secret"
    /\ last.args[1] >= 2
    /\ last.args[2][1] # inst.E
    /\ last.result # j_invariant(last.args[2][1])

=============================================================================
